---- MODULE Spec2Model ----
(***************************************************************************)
(* Model of psutil's GitHub label scripts:                                 *)
(*   scripts/internal/github_labeler.py        (script = "labeler")        *)
(*   scripts/internal/github_issue_labeler.py  (script = "issue_labeler")  *)
(*                                                                         *)
(* One run of main() is modelled: the Setter is constructed, the fetch     *)
(* yields items one at a time, and each item goes through guess_from_title,*)
(* logical_adjust and (github_labeler.py only) guess_from_body.  Texts are *)
(* real strings; keyword matching is the case-insensitive substring test   *)
(* of the code.  The hosting API is a collaborator: `remote` is the label  *)
(* set the server holds, issue.labels is the client object's view of it.   *)
(***************************************************************************)
EXTENDS Integers, Sequences, FiniteSets, TLC

VARIABLES
    script,        \* which of the two scripts runs
    do_write,      \* Setter.do_write (args.write)
    live_labels,   \* does issue.labels reflect add_to_labels calls (client library)
    args_body,     \* args.body            (github_labeler.py only)
    args_number,   \* args.number, 0 is None (github_labeler.py only)
    avail_labels,  \* Setter.avail_labels
    total,         \* how many items the fetch yields
    idx,           \* the loop index of main (0: not bound yet)
    pc,            \* position of main
    issue,         \* the item in hand: title, body, labels (issue.labels), fetched
    remote,        \* remote[i]: labels the server holds for the i-th item
    fetched,       \* fetched[i]: labels of the i-th item when it was fetched
    calls,         \* the issue.add_to_labels calls made so far: <<i, label>>
    trace,         \* what happened to the item in hand (log lines, proposals, warnings)
    processed,     \* indices of the items handed to guess_from_title
    summary,       \* the number printed by "processed %s issues" (-1: nothing printed)
    failed         \* the label whose assertion aborted the run, or the raised error

vars == <<script, do_write, live_labels, args_body, args_number, avail_labels,
          total, idx, pc, issue, remote, fetched, calls, trace, processed,
          summary, failed>>

-----------------------------------------------------------------------------
(* Bounds of the exploration *)

\* the fetch yields at most MaxItems items
MaxItems == 2
\* args.number ranges over None (0) and 1..MaxNumber
MaxNumber == 2
\* an item carries at most MaxFetchedLabels labels when it is fetched
MaxFetchedLabels == 2

-----------------------------------------------------------------------------
(* Text: str.lower() and the `in` substring test *)

UpperChars == "ABCDEFGHIJKLMNOPQRSTUVWXYZ"
LowerChars == "abcdefghijklmnopqrstuvwxyz"

LowerChar(c) ==
    IF \E i \in 1..Len(UpperChars) : SubSeq(UpperChars, i, i) = c
    THEN LET i == CHOOSE i \in 1..Len(UpperChars) : SubSeq(UpperChars, i, i) = c
         IN  SubSeq(LowerChars, i, i)
    ELSE c

RECURSIVE lower(_)
lower(s) ==
    IF Len(s) = 0 THEN ""
    ELSE LowerChar(SubSeq(s, 1, 1)) \o lower(SubSeq(s, 2, Len(s)))

\* Python's `k in t` on strings
Contains(k, t) ==
    \E i \in 0..(Len(t) - Len(k)) : SubSeq(t, i + 1, i + Len(k)) = k

-----------------------------------------------------------------------------
(* Static tables *)

NoLabel == ""

OS_LABELS ==
    << "linux", "windows", "macos", "freebsd", "openbsd", "netbsd", "openbsd",
       "bsd", "sunos", "unix", "wsl", "aix", "cygwin" >>

\* the *.py files os.listdir(SCRIPTS_DIR) returns, appended to the 'scripts' keywords
ScriptFiles == << "top.py" >>

\* github_labeler.py
labels_map ==
    << << "linux", << "linux", "ubuntu", "redhat", "mint", "centos", "red hat",
           "archlinux", "debian", "alpine", "gentoo", "fedora", "slackware",
           "suse", "RHEL", "opensuse", "manylinux", "apt ", "apt-", "rpm",
           "yum", "kali", "/sys/class", "/proc/net", "/proc/disk",
           "/proc/smaps", "/proc/vmstat" >> >>,
       << "windows", << "windows", "win32", "WinError", "WindowsError", "win10",
           "win7", "win ", "mingw", "msys", "studio", "microsoft", "make.bat",
           "CloseHandle", "GetLastError", "NtQuery", "DLL", "MSVC", "TCHAR",
           "WCHAR", ".bat", "OpenProcess", "TerminateProcess", "appveyor" >> >>,
       << "macos", << "macos", "mac ", "osx", "os x", "mojave", "sierra",
           "capitan", "yosemite", "catalina", "xcode", "darwin", "dylib" >> >>,
       << "aix", << "aix" >> >>,
       << "cygwin", << "cygwin" >> >>,
       << "freebsd", << "freebsd" >> >>,
       << "netbsd", << "netbsd" >> >>,
       << "openbsd", << "openbsd" >> >>,
       << "sunos", << "sunos", "solaris" >> >>,
       << "wsl", << "wsl" >> >>,
       << "unix", << "psposix", "_psutil_posix", "waitpid", "statvfs",
           "/dev/tty", "/dev/pts" >> >>,
       << "pypy", << "pypy" >> >>,
       << "enhancement", << "enhancement" >> >>,
       << "memleak", << "memory leak", "leaks memory", "memleak", "mem leak" >> >>,
       << "api", << "idea", "proposal", "api", "feature" >> >>,
       << "performance", << "performance", "speedup", "speed up", "slow",
           "fast" >> >>,
       << "wheels", << "wheel", "wheels" >> >>,
       << "scripts", << "example script", "examples script", "example dir",
           "scripts/" >> \o ScriptFiles >>,
       << "bug", << "fail", "can't execute", "can't install", "cannot execute",
           "cannot install", "install error", "crash", "critical" >> >>,
       << "doc", << "doc ", "document ", "documentation", "readthedocs",
           "pythonhosted", "HISTORY", "README", "dev guide", "devguide",
           "sphinx", "docfix", "index.rst" >> >>,
       << "tests", << "test", "tests", "travis", "coverage", "cirrus",
           "appveyor", "continuous integration", "unittest", "pytest",
           "unit test" >> >>,
       << "priority-high", << "WinError", "WindowsError", "RuntimeError",
           "ZeroDivisionError", "SystemError", "MemoryError", "core dumped",
           "segfault", "segmentation fault" >> >> >>

\* github_issue_labeler.py
labels_map_issue ==
    << << "linux", << "linux", "ubuntu", "redhat", "mint", "centos", "red hat",
           "archlinux", "debian", "alpine", "gentoo", "fedora", "slackware",
           "suse", "RHEL", "opensuse", "manylinux", "apt", "rpm", "yum",
           "kali", "/sys/class", "/sys/", "/proc/net", "/proc/disk",
           "/proc/smaps", "/proc/vmstat" >> >>,
       << "windows", << "windows", "win32", "WinError", "WindowsError", "win10",
           "win7", "win", "mingw", "msys", "studio", "microsoft", "make.bat",
           "CloseHandle", "GetLastError", "NtQuery", "DLL", "MSVC", "TCHAR",
           "WCHAR", ".bat", "OpenProcess", "TerminateProcess", "appveyor" >> >>,
       << "macos", << "macos", "mac ", "osx", "os x", "mojave", "sierra",
           "capitan", "yosemite", "catalina", "xcode", "darwin" >> >>,
       << "aix", << "aix" >> >>,
       << "cygwin", << "cygwin" >> >>,
       << "freebsd", << "freebsd" >> >>,
       << "netbsd", << "netbsd" >> >>,
       << "openbsd", << "openbsd" >> >>,
       << "sunos", << "sunos", "solaris" >> >>,
       << "wsl", << "wsl" >> >>,
       << "pypy", << "pypy" >> >>,
       << "unix", << "psposix", "_psutil_posix", "waitpid", "statvfs",
           "/dev/tty", "/dev/pts" >> >>,
       << "enhancement", << "enhancement" >> >>,
       << "memleak", << "memory leak", "leaks memory", "memleak", "mem leak" >> >>,
       << "api", << "idea", "proposal", "api", "feature" >> >>,
       << "performance", << "performance", "speedup", "slow", "fast" >> >>,
       << "wheels", << "wheel", "wheels" >> >>,
       << "scripts", << "example script", "examples script", "example dir",
           "scripts/" >> \o ScriptFiles >>,
       << "bug", << "can't execute", "can't install", "cannot execute",
           "cannot install" >> >>,
       << "doc", << "doc ", "document ", "documentation", "readthedocs",
           "pythonhosted", "HISTORY", "README", "dev guide", "devguide",
           "sphinx", "docfix", "index.rst" >> >>,
       << "tests", << "test", "tests", "travis", "coverage", "cirrus",
           "appveyor", "continuous integration", "unittest", "pytest",
           "unit test" >> >>,
       << "priority-high", << "WinError", "WindowsError", "RuntimeError",
           "ZeroDivisionError", "SystemError", "MemoryError", "core dumped",
           "segfault", "segmentation fault" >> >> >>

Scripts == { "labeler", "issue_labeler" }

LabelsMapOf(s) == IF s = "labeler" THEN labels_map ELSE labels_map_issue

Range(seq) == { seq[i] : i \in DOMAIN seq }

\* labels_map.items() unrolled: the <<label, keyword>> pairs in iteration order
RECURSIVE Items(_)
Items(m) ==
    IF m = << >> THEN << >>
    ELSE [ i \in DOMAIN Head(m)[2] |-> << Head(m)[1], Head(m)[2][i] >> ]
         \o Items(Tail(m))

\* the labels a repository configured for these scripts holds
AllLabels == { labels_map[i][1] : i \in DOMAIN labels_map } \cup { "bsd" }

-----------------------------------------------------------------------------
(* The texts and label sets the items are drawn from *)

Titles ==
    { "Segmentation fault on FreeBSD",
      "Add support for Windows WSL",
      "Add support for X and fix Y",
      "Unit tests are broken",
      "Value is wrong",
      "enhancement: crash in scripts/top.py",
      "I use LINUX daily",
      "Generic BSD problem",
      "README documentation for tests",
      "Hello" }

\* the body is optional: "" stands for an empty or missing body
Bodies ==
    { "",
      "Happens on FreeBSD and OpenBSD",
      "Seen on NetBSD",
      "Ubuntu Linux unit test" }

\* labels an item may carry when it is fetched
SeedLabels ==
    { "bug", "enhancement", "doc", "tests", "scripts", "freebsd", "bsd",
      "windows" }

\* runs over several items draw them from a smaller pool
LoopTitles ==
    { "Segmentation fault on FreeBSD", "Unit tests are broken" }

LoopBodies == { "", "Seen on NetBSD" }

LoopLabelSets == { {}, { "scripts", "tests" } }

TitlesFor(n) == IF n <= 1 THEN Titles ELSE LoopTitles

BodiesFor(n) == IF n <= 1 THEN Bodies ELSE LoopBodies

LabelSetsFor(n) ==
    IF n <= 1
    THEN { s \in SUBSET SeedLabels : Cardinality(s) <= MaxFetchedLabels }
    ELSE LoopLabelSets

\* labels the repository may lack (the static table out of sync with it)
Droppable == { "bsd", "enhancement" }

Texts == Titles \cup Bodies

-----------------------------------------------------------------------------
(* Setter: utils *)

\* issue.add_to_labels(label): the server adds the label; the client object
\* shows it in issue.labels when live_labels
add_to_labels(st, label) ==
    [ st EXCEPT !.remote = @ \cup { label },
                !.calls  = Append(@, label),
                !.labels = IF live_labels THEN @ \cup { label } ELSE @ ]

\* mutant: the membership test of has_label lost
has_label_never(st, label) == FALSE

has_label(st, label) == label \in st.labels

has_os_label(st) ==
    \E i \in DOMAIN OS_LABELS : OS_LABELS[i] \in st.labels

\* mutant: the assertion of add_label stripped
LabelKnown_unchecked(label) == TRUE

\* the assertion on avail_labels, evaluated first
LabelKnown(label) == label \in avail_labels

\* mutant: add_label writing without testing do_write
add_label_always_writes(st, step, label) ==
    IF st.failed # NoLabel THEN st
    ELSE IF ~LabelKnown(label) THEN [ st EXCEPT !.failed = label ]
    ELSE IF ~has_label(st, label)
         THEN add_to_labels([ st EXCEPT !.log = Append(@, << step, label >>) ],
                            label)
         ELSE st

\* st.failed # NoLabel: an exception is propagating, nothing more runs
add_label(st, step, label) ==
    IF st.failed # NoLabel THEN st
    ELSE IF ~LabelKnown(label) THEN [ st EXCEPT !.failed = label ]
    ELSE IF ~has_label(st, label)
         THEN LET printed == [ st EXCEPT !.log = Append(@, << step, label >>) ]
              IN  IF do_write THEN add_to_labels(printed, label) ELSE printed
         ELSE st

pairs == { << "bug", "enhancement" >>, << "scripts", "doc" >>,
           << "scripts", "tests" >> }

\* mutant: should_add without the exclusion pairs
should_add_no_pairs(st, label) == ~has_label(st, label)

should_add(st, label) ==
    IF \E p \in pairs : label = p[1] /\ has_label(st, p[2])
    THEN FALSE
    ELSE ~has_label(st, label)

-----------------------------------------------------------------------------
(* Setter: setters *)

\* every <<label, keyword>> of the script's labels_map whose keyword is in the
\* text, both lower-cased, in the order of the map
Matches(s, text) ==
    SelectSeq(Items(LabelsMapOf(s)),
              LAMBDA p : Contains(lower(p[2]), lower(text)))

MatchTable == [ s \in Scripts |-> [ t \in Texts |-> Matches(s, t) ] ]

Propose(st, step, label) ==
    [ st EXCEPT !.proposed = Append(@, << step, label >>) ]

\* github_labeler.py: guess_from_title consuming the generator
\* _guess_from_text(issue, issue.title); should_add is evaluated when the
\* generator reaches the match, after the earlier add_label calls
RECURSIVE guess_from_title(_, _)
guess_from_title(st, hits) ==
    IF hits = << >> \/ st.failed # NoLabel THEN st
    ELSE LET label == Head(hits)[1]
         IN  guess_from_title(
                 IF should_add(st, label)
                 THEN add_label(Propose(st, "title", label), "title", label)
                 ELSE st,
                 Tail(hits))

\* github_issue_labeler.py: guess_from_title
RECURSIVE guess_from_title_issue(_, _)
guess_from_title_issue(st, hits) ==
    IF hits = << >> \/ st.failed # NoLabel THEN st
    ELSE LET label == Head(hits)[1]
         IN  guess_from_title_issue(
                 IF label \notin st.labels
                 THEN add_label(Propose(st, "title", label), "title", label)
                 ELSE st,
                 Tail(hits))

\* ls = list(self._guess_from_text(issue, issue.body)): the generator is run
\* to its end before any label is added
guess_from_text_list(st, hits) ==
    SelectSeq(hits, LAMBDA p : should_add(st, p[1]))

IsOsLabel(label) == \E i \in DOMAIN OS_LABELS : OS_LABELS[i] = label

\* mutant: the ambiguity test of guess_from_body lost
has_multi_os_never(ls) == FALSE

has_multi_os(ls) ==
    Cardinality({ ls[i][1] : i \in { j \in DOMAIN ls : IsOsLabel(ls[j][1]) } }) > 1

RECURSIVE guess_from_body_loop(_, _, _)
guess_from_body_loop(st, ls, multi) ==
    IF ls = << >> \/ st.failed # NoLabel THEN st
    ELSE LET label == Head(ls)[1]
             next  == IF label \in { "tests", "api", "performance" } THEN st
                      ELSE IF IsOsLabel(label)
                      THEN IF has_os_label(st) \/ multi THEN st
                           ELSE IF has_label(st, "scripts") THEN st
                           ELSE add_label(st, "body", label)
                      ELSE st
         IN  guess_from_body_loop(next, Tail(ls), multi)

guess_from_body(st, hits) ==
    LET ls  == guess_from_text_list(st, hits)
        st1 == [ st EXCEPT !.proposed =
                     @ \o [ i \in DOMAIN ls |-> << "body", ls[i][1] >> ] ]
    IN  guess_from_body_loop(st1, ls, has_multi_os(ls))

\* the three check_dual_label calls of logical_adjust
DualChecks == { << "bug", "enhancement" >>, << "scripts", "doc" >>,
                << "scripts", "test" >> }

check_dual_label(labels, a, b) == a \in labels /\ b \in labels

\* mutant: the enhancement rule without its 'add support' phrase
IsEnhancementTitle_short(title) ==
    \/ Contains("refactoring", title)
    \/ Contains("enhancement", title)
    \/ Contains("adds support", title)

IsEnhancementTitle(title) ==
    \/ Contains("add support", title)
    \/ Contains("refactoring", title)
    \/ Contains("enhancement", title)
    \/ Contains("adds support", title)

IsBugTitle(title) ==
    \/ Contains("fix", title)
    \/ Contains("fixes", title)
    \/ Contains("is incorrect", title)
    \/ Contains("is wrong", title)

\* logical_adjust, the same in both scripts; `labels` is read once at the top
logical_adjust(st, text) ==
    LET labels == st.labels
        title  == lower(text)
        warned == { p \in DualChecks : check_dual_label(labels, p[1], p[2]) }
        st0    == [ st EXCEPT !.warned = @ \cup warned ]
        st1    == IF "bug" \notin labels /\ "enhancement" \notin labels
                     /\ "doc" \notin labels
                  THEN IF IsEnhancementTitle(title)
                       THEN add_label(st0, "adjust", "enhancement")
                       ELSE IF IsBugTitle(title)
                       THEN add_label(st0, "adjust", "bug")
                       ELSE st0
                  ELSE st0
    IN  IF st1.failed # NoLabel THEN st1
        ELSE IF ~has_os_label(st1) /\ Contains("bsd", title)
        THEN add_label(st1, "adjust", "bsd")
        ELSE st1

-----------------------------------------------------------------------------
(* main() *)

NoTrace ==
    [ log |-> << >>, proposed |-> << >>, warned |-> {}, steps |-> {},
      atAdjust |-> {}, atBody |-> {} ]

AvailChoices == { AllLabels } \cup { AllLabels \ { l } : l \in Droppable }

\* exploration regimes: one item from the full pool, or a loop over several
\* items of the small pool with every value of --number
WideRun == total = 1 /\ args_number = 0

PoolSize == IF WideRun THEN 1 ELSE 2

Init ==
    /\ script \in Scripts
    /\ do_write \in BOOLEAN
    /\ live_labels \in (IF do_write THEN BOOLEAN ELSE { FALSE })
    /\ args_body \in (IF script = "labeler" THEN BOOLEAN ELSE { FALSE })
    /\ args_number \in (IF script = "labeler" THEN 0..MaxNumber ELSE { 0 })
    /\ avail_labels \in AvailChoices
    /\ total \in 0..MaxItems
    /\ idx = 0
    /\ pc = "fetch"
    /\ issue = [ title |-> "", body |-> "", labels |-> {}, fetched |-> {} ]
    /\ remote = << >>
    /\ fetched = << >>
    /\ calls = << >>
    /\ trace = NoTrace
    /\ processed = << >>
    /\ summary = -1
    /\ failed = NoLabel

\* the state the Setter methods work on, for the item in hand
Current ==
    [ labels |-> issue.labels, remote |-> remote[idx], calls |-> << >>,
      log |-> trace.log, proposed |-> trace.proposed, warned |-> trace.warned,
      failed |-> NoLabel ]

\* write back what a Setter method did; an assertion failure ends the run
Commit(st, step, seen, nextpc) ==
    /\ issue' = [ issue EXCEPT !.labels = st.labels ]
    /\ remote' = [ remote EXCEPT ![idx] = st.remote ]
    /\ calls' = calls \o [ i \in DOMAIN st.calls |-> << idx, st.calls[i] >> ]
    /\ trace' = [ trace EXCEPT !.log = st.log, !.proposed = st.proposed,
                               !.warned = st.warned,
                               !.steps = @ \cup { step },
                               !.atAdjust = IF step = "adjust" THEN seen ELSE @,
                               !.atBody = IF step = "body" THEN seen ELSE @ ]
    /\ failed' = st.failed
    /\ pc' = IF st.failed # NoLabel THEN "aborted" ELSE nextpc

\* the number --number stops the loop at: `if args.number and idx >= args.number`
LimitReached(i) == args_number # 0 /\ i >= args_number

\* one turn of `for idx, issue in enumerate(issues, 1)` up to the limit test
\* (github_issue_labeler.py: `for issue in issues`, no limit)
NextIssue ==
    /\ pc = "fetch"
    /\ IF idx < total
       THEN /\ \E title \in TitlesFor(PoolSize),
                  labels \in LabelSetsFor(PoolSize),
                  body \in BodiesFor(PoolSize) :
                 /\ labels \subseteq avail_labels
                 /\ script # "labeler" => body = ""
                 /\ issue' = [ title |-> title, body |-> body,
                               labels |-> labels, fetched |-> labels ]
                 /\ remote' = Append(remote, labels)
                 /\ fetched' = Append(fetched, labels)
            /\ idx' = idx + 1
            /\ trace' = NoTrace
            /\ pc' = IF script = "labeler" /\ LimitReached(idx + 1)
                     THEN "summary" ELSE "title"
       ELSE /\ pc' = IF script = "labeler" THEN "summary" ELSE "done"
            /\ UNCHANGED << issue, remote, fetched, idx, trace >>
    /\ UNCHANGED << script, do_write, live_labels, args_body, args_number,
                    avail_labels, total, calls, processed, summary, failed >>

GuessFromTitle ==
    /\ pc = "title"
    /\ LET hits == MatchTable[script][issue.title]
           st   == IF script = "labeler"
                   THEN guess_from_title(Current, hits)
                   ELSE guess_from_title_issue(Current, hits)
       IN  Commit(st, "title", issue.labels, "adjust")
    /\ processed' = Append(processed, idx)
    /\ UNCHANGED << script, do_write, live_labels, args_body, args_number,
                    avail_labels, total, idx, fetched, summary >>

\* logical_adjust; adjust_pr does nothing in github_labeler.py and is not
\* called in github_issue_labeler.py
LogicalAdjust ==
    /\ pc = "adjust"
    /\ Commit(logical_adjust(Current, issue.title), "adjust", issue.labels,
              IF script = "labeler" THEN "body" ELSE "fetch")
    /\ UNCHANGED << script, do_write, live_labels, args_body, args_number,
                    avail_labels, total, idx, fetched, processed, summary >>

\* `if args.body and issue.body: setter.guess_from_body(issue)`
GuessFromBody ==
    /\ pc = "body"
    /\ IF args_body /\ issue.body # ""
       THEN Commit(guess_from_body(Current, MatchTable[script][issue.body]),
                   "body", issue.labels, "fetch")
       ELSE /\ pc' = "fetch"
            /\ UNCHANGED << issue, remote, calls, trace, failed >>
    /\ UNCHANGED << script, do_write, live_labels, args_body, args_number,
                    avail_labels, total, idx, fetched, processed, summary >>

\* print("processed %s issues" % idx): idx is unbound when nothing was fetched
Summary ==
    /\ pc = "summary"
    /\ IF idx = 0
       THEN /\ failed' = "UnboundLocalError"
            /\ pc' = "aborted"
            /\ UNCHANGED summary
       ELSE /\ summary' = idx
            /\ pc' = "done"
            /\ UNCHANGED failed
    /\ UNCHANGED << script, do_write, live_labels, args_body, args_number,
                    avail_labels, total, idx, issue, remote, fetched, calls,
                    trace, processed >>

Next ==
    \/ NextIssue
    \/ GuessFromTitle
    \/ LogicalAdjust
    \/ GuessFromBody
    \/ Summary

Spec == Init /\ [][Next]_vars

-----------------------------------------------------------------------------
(* Observations on the item in hand *)

\* labels of the 'new:' lines printed by add_label in one step
Added(step) ==
    { trace.log[i][2] : i \in { j \in DOMAIN trace.log : trace.log[j][1] = step } }

AddedAll == { trace.log[i][2] : i \in DOMAIN trace.log }

ProposedAll == { trace.proposed[i][2] : i \in DOMAIN trace.proposed }

CallsFor(i) == { calls[k][2] : k \in { j \in DOMAIN calls : calls[j][1] = i } }

OsSet == Range(OS_LABELS)

\* labels whose keywords match a text
MatchedLabels(text) ==
    { MatchTable[script][text][i][1] : i \in DOMAIN MatchTable[script][text] }

-----------------------------------------------------------------------------
(* Claims *)

\* C1: with do_write = FALSE no add_to_labels call is ever made and the remote
\* label set of every item stays what it was when the item was fetched.
C1_DryRunSafety ==
    ~do_write => (calls = << >> /\ remote = fetched)

\* C1 witness: a finished dry run that printed several new labels for an item.
C1_Witness ==
    /\ ~do_write
    /\ pc = "done"
    /\ Len(processed) >= 1
    /\ Len(trace.log) >= 2

\* C2: during the processing of one item the add action (the 'new:' line of
\* add_label) happens at most once per label.
C2_NoLabelAppliedTwice ==
    \A i, j \in DOMAIN trace.log :
        i # j => trace.log[i][2] # trace.log[j][2]

\* C3: github_labeler.py: for an item fetched with the right label of an
\* exclusion pair, no step proposes or adds the left label.
C3_ExclusionPairs ==
    script = "labeler" =>
        \A p \in pairs :
            p[2] \in issue.fetched =>
                /\ p[1] \notin ProposedAll
                /\ p[1] \notin AddedAll
                /\ idx > 0 => p[1] \notin CallsFor(idx)

\* C3 witness: an item fetched with the right label only, whose title matches a
\* keyword of the left label, after title classification and derivation.
C3_Witness ==
    /\ script = "labeler"
    /\ "adjust" \in trace.steps
    /\ \E p \in pairs :
          /\ p[2] \in issue.fetched
          /\ p[1] \notin issue.fetched
          /\ p[1] \in MatchedLabels(issue.title)

\* C4: a label the item carried when it was fetched is never proposed, never
\* printed as new and never sent to add_to_labels, in both scripts.
C4_Idempotence ==
    /\ \A l \in issue.fetched : l \notin ProposedAll /\ l \notin AddedAll
    /\ \A k \in DOMAIN calls : calls[k][2] \notin fetched[calls[k][1]]

\* C4 witness: an item fetched with a label that a title keyword or a
\* derivation rule maps to, after derivation.
C4_Witness ==
    /\ "adjust" \in trace.steps
    /\ \/ \E l \in issue.fetched : l \in MatchedLabels(issue.title)
       \/ "bsd" \in issue.fetched /\ Contains("bsd", lower(issue.title))

\* C5: logical_adjust adds 'bsd' only when the item has no platform label,
\* counting those guess_from_title added; "Segmentation fault on FreeBSD" with
\* no labels gets exactly {freebsd, priority-high}.
C5_GenericBsdSuppressed ==
    ("adjust" \in trace.steps /\ failed = NoLabel) =>
        /\ "bsd" \in Added("adjust") =>
               (issue.fetched \cup Added("title")) \cap OsSet = {}
        /\ (issue.title = "Segmentation fault on FreeBSD" /\ issue.fetched = {}) =>
               Added("title") \cup Added("adjust") = { "freebsd", "priority-high" }

\* C6: logical_adjust warns about every exclusion pair whose two labels are on
\* the item, fetched with it or added by its title classification.
C6_ConflictWarning ==
    ("adjust" \in trace.steps) =>
        \A p \in pairs :
            { p[1], p[2] } \subseteq (issue.fetched \cup Added("title")) =>
                p \in trace.warned

\* C7: github_labeler.py with --number N >= 1 over T items processes exactly
\* the first min(N, T) items and the summary reports that number.
C7_ItemLimit ==
    (script = "labeler" /\ args_number >= 1 /\ pc = "done") =>
        LET n == IF args_number < total THEN args_number ELSE total
        IN  /\ processed = [ i \in 1..n |-> i ]
            /\ summary = n

\* C8: add_label with a label outside avail_labels aborts the run: no such
\* label is ever printed as new or sent to add_to_labels, the run is aborted
\* exactly when an assertion (or the unbound idx) failed, and the labels added
\* before stay on the remote items.
C8_UnknownLabelFatal ==
    /\ AddedAll \subseteq avail_labels
    /\ \A k \in DOMAIN calls :
          /\ calls[k][2] \in avail_labels
          /\ calls[k][2] \in remote[calls[k][1]]
    /\ (pc = "aborted") <=> (failed # NoLabel)
    /\ (failed # NoLabel /\ failed # "UnboundLocalError") =>
          failed \notin avail_labels

\* C8 witness: a write run aborted on a label the repository lacks, on its
\* second item, after labels were added.
C8_Witness ==
    /\ pc = "aborted"
    /\ failed \in Droppable
    /\ do_write
    /\ Len(processed) >= 2
    /\ CallsFor(1) # {}
    /\ CallsFor(2) # {}

\* C9: guess_from_body adds no platform label when keywords of two or more
\* platform labels match the body; it adds one only if exactly one platform
\* label matched and the item carries neither a platform label nor 'scripts'.
C9_BodyAmbiguity ==
    ("body" \in trace.steps) =>
        LET osMatched == MatchedLabels(issue.body) \cap OsSet
        IN  /\ Cardinality(osMatched) >= 2 => Added("body") \cap OsSet = {}
            /\ Added("body") \cap OsSet # {} =>
                  /\ Cardinality(osMatched) = 1
                  /\ trace.atBody \cap OsSet = {}
                  /\ "scripts" \notin trace.atBody

\* C9 witness: a body matching two platform labels scanned for an item that
\* carries neither a platform label nor 'scripts'.
C9_Witness ==
    /\ "body" \in trace.steps
    /\ Cardinality(MatchedLabels(issue.body) \cap OsSet) >= 2
    /\ trace.atBody \cap OsSet = {}
    /\ "scripts" \notin trace.atBody
    /\ failed = NoLabel

\* C10: logical_adjust adds at most one of 'enhancement' and 'bug'; with both
\* phrasings in the title it adds 'enhancement' (the call to add_label is
\* made) and never 'bug'; on an item carrying bug, enhancement or doc neither.
C10_DerivationExclusive ==
    ("adjust" \in trace.steps) =>
        LET free  == trace.atAdjust \cap { "bug", "enhancement", "doc" } = {}
            title == lower(issue.title)
            added == Added("adjust")
            enhPhrase == \E k \in { "add support", "adds support", "refactoring",
                                    "enhancement" } : Contains(k, title)
            bugPhrase == \E k \in { "fix", "fixes", "is incorrect", "is wrong" } :
                            Contains(k, title)
        IN  /\ ~ ("enhancement" \in added /\ "bug" \in added)
            /\ (free /\ enhPhrase /\ bugPhrase) =>
                  /\ "bug" \notin added
                  /\ "enhancement" \in added \/ failed = "enhancement"
            /\ ~free => ("enhancement" \notin added /\ "bug" \notin added)

\* C10 witness: an item carrying none of the three labels whose title has both
\* phrasings, after logical_adjust added 'enhancement'.
C10_Witness ==
    /\ "adjust" \in trace.steps
    /\ trace.atAdjust \cap { "bug", "enhancement", "doc" } = {}
    /\ Contains("add support", lower(issue.title))
    /\ Contains("fix", lower(issue.title))
    /\ "enhancement" \in Added("adjust")

\* C11: github_labeler.py: once title classification added the right label of
\* an exclusion pair, the left label is not added to the item afterwards, and an
\* item fetched with neither label of a pair never gets both added.
C11_ExclusionWithinPass ==
    script = "labeler" =>
        \A p \in pairs :
            /\ \A i, j \in DOMAIN trace.log :
                  (i < j /\ trace.log[i] = << "title", p[2] >>) =>
                      trace.log[j][2] # p[1]
            /\ { p[1], p[2] } \cap issue.fetched = {} =>
                  ~ ({ p[1], p[2] } \subseteq AddedAll)

====
